---- MODULE Spec2Model ----
(***************************************************************************)
(* A model of the sync-pair reconciliation engine of data-sync            *)
(* (src/sync_manager.py): SyncPair.sync, _pull_changes, _commit_and_push,  *)
(* _has_changes and the two trigger paths (SyncEventHandler, the           *)
(* scheduled sync) for one SyncPair; the scheduled sync over the pairs of  *)
(* the manager (SpecSched); the construction of a pair (SpecCtor).         *)
(*                                                                         *)
(* The repository engine (GitPython) is outside the program.  Every call   *)
(* into it is one step whose outcome is chosen from the outcomes that call *)
(* can have: "ok", a git.exc.GitCommandError (written by the text the      *)
(* handler of _pull_changes looks for in it: "conflict", "untracked",      *)
(* "other") or another Exception ("exc": TypeError of a detached HEAD,     *)
(* ValueError, OSError ...).                                               *)
(***************************************************************************)
EXTENDS Integers, Sequences, FiniteSets, TLC

\* ---------------------------------------------------------------- bounds
MaxChanges == 1      \* local file changes the user makes during a run
MaxTicks == 1        \* clock ticks during a run
StartTime == 6       \* time.time() when the pair is constructed
MaxAutocommit == 1   \* the largest configured autocommit_time
MaxWatchTicks == 8   \* clock ticks during a run of the watcher alone
NumPairs == 2        \* the sync pairs of the configuration
MaxSchedTicks == 2   \* rounds of the scheduled sync during a run
MaxHistory == 2      \* commits of a repository found on disk

\* ----------------------------------------------------- program constants
debounce_time == 5

Contexts == {"watcher", "scheduler"}
Changes == 1..MaxChanges
AutocommitTimes == {MaxAutocommit}

\* Where a local change is: not made yet; an unstaged modification of a
\* tracked file; a new untracked file; staged in the index; in a commit of
\* the local branch only; in the remote branch; discarded.
Locs == {"none", "wt", "untracked", "index", "local", "remote", "lost"}

GitCommandErrors == {"conflict", "untracked", "other"}

VARIABLES
  now,               \* time.time()
  autocommit_time,   \* SyncPair.autocommit_time
  sync_lock,         \* SyncPair.sync_lock is held
  last_sync_time,    \* SyncPair.last_sync_time
  last_event_time,   \* SyncEventHandler.last_event_time
  pc,                \* per context: where its sync() call is
  call,              \* per context: the locals of its sync() call
  chg,               \* where each local change is
  incoming,          \* commits of the remote branch the local branch lacks
  trk,               \* the remote-tracking ref origin/<branch>
  ahead,             \* the local branch has unpushed commits with no change
  hc,                \* the last _has_changes() call
  sched,             \* the scheduled sync of the manager's pairs
  ctor,              \* the construction of the pair, and its repository
  mgr                \* the SyncManager: its pairs, its tasks, its shutdown

vars == <<now, autocommit_time, sync_lock, last_sync_time, last_event_time,
          pc, call, chg, incoming, trk, ahead, hc, sched, ctor, mgr>>

repoVars == <<chg, incoming, trk, ahead>>

\* The locals of a sync() call that has not started.
\*   current_time     sync()'s current_time
\*   frame            the caller of the running _commit_and_push
\*   err              the exception being raised
\*   touched          the call has called into the repository
\*   outcome          how the sync() call ended
\*   plog             the calls _pull_changes itself made, from its pull on
\*   pullRes, cpRes   what _pull_changes, _commit_and_push returned
\*   committed, old_remote_head, push_result   locals of _commit_and_push
\*   dirty            the modifications that were uncommitted when
\*                    _pull_changes started
\*   made             the changes there were when the running
\*                    _commit_and_push started
\*   cp1              the _commit_and_push call _pull_changes made, once it
\*                    is over: its made, committed, push_result, cpRes
\*   commit_message   the message of the commit the running
\*                    _commit_and_push created
\*   pending          the changes there were when the call found the guard
\*                    held
NoCall == [current_time |-> 0, frame |-> "none", err |-> "none",
           touched |-> FALSE, outcome |-> "none", plog |-> <<>>,
           pullRes |-> "none", cpRes |-> "none", committed |-> FALSE,
           old_remote_head |-> "none", dirty |-> {}, made |-> {},
           push_result |-> "none", cp1 |-> <<>>, commit_message |-> <<>>,
           pending |-> {}]

\* No _has_changes() call has been made.
\*   path     "try" or "fallback": the block that produced the result
\*   failed   the repository call that raised, and what it raised
\*   res      "true", "false", or "raised"
NoHas == [path |-> "none", failed |-> <<>>, res |-> "none"]

\* The pairs of SyncManager.sync_pairs, in the order of the dict.
Pairs == 1..NumPairs

\* The tokens a pair's configuration can hold: a token itself, or the name
\* of an environment variable that is set, or of one that is not.
TokenConfigs == {"literal", "${SET}", "${UNSET}"}

\* A manager whose pairs are all constructed and whose tasks are running.
\*   phase      "init" (initialize_sync_pairs), "run" (start_sync awaits its
\*              tasks), "cancel" (the tasks have been cancelled), "down"
\*              (asyncio.run has returned)
\*   k          the configured pair the loop of initialize_sync_pairs is at
\*   config     per configured pair: its github_token
\*   sync_pairs the registered pairs, in the order of the dict
\*   failed     the pairs of which "Failed to initialize" has been logged
\*   observers  per pair: its watchdog observer, "none", "started",
\*              "stopped" or "joined"
\*   inflight   the pairs whose sync() was running when the shutdown began
Started == [phase |-> "run", k |-> NumPairs + 1,
            config |-> [p \in Pairs |-> "literal"],
            sync_pairs |-> [i \in 1..NumPairs |-> i], failed |-> {},
            observers |-> [p \in Pairs |-> "started"], inflight |-> {}]

\* The scheduled sync before its first round.
\*   pos      where _start_scheduled_sync_async is: at the head of the for
\*            loop, awaiting asyncio.to_thread, in asyncio.sleep, or over
\*   i        the pair the for loop is at
\*   tick     the rounds that are over
\*   res      how the awaited sync() call ended
\*   synced   the pairs whose sync() was called in this round
\*   errors   the pairs of which "Error syncing" has been logged
\*   running  per pair: the thread that is inside its sync(), past the lock
NoSched == [pos |-> "for", i |-> 1, tick |-> 0, res |-> "none",
            synced |-> {}, errors |-> {},
            running |-> [p \in Pairs |-> "none"]]

\* A pair whose constructor is over, with the repository it leaves.
\*   pc          where SyncPair.__init__ is
\*   fn          the method that is running: _initialize_git or
\*               _ensure_valid_repository
\*   git_folder  <local_folder>/.git exists
\*   files       the local folder is not empty
\*   commits     the repository has commits
\*   head        HEAD resolves to a commit ("valid") or not ("invalid")
\*   origin      the remote origin: "absent", or the url it has: "old" (of
\*               another token) or "current" (remote_url)
\*   branch      the configured branch: "absent", "exists", or "current"
\*               (the branch HEAD is on)
\*   err         the call whose exception ended the construction
\*   disk        what the folder held when the constructor began: "norepo",
\*               "valid" (HEAD resolves), "nocommit", "nohead" (commits,
\*               and a HEAD that does not resolve)
\*   history     the number of commits of the repository, numbered from
\*               the oldest (1) to the most recent
\*   head_at     the commit HEAD resolves to, 0 while it does not resolve
\*   created     the number of commits the constructor has created
\*   content     what the created commit holds: "files" or "empty"
\*   staged      index.diff('HEAD') found differences after index.add('*')
Constructed == [pc |-> "ready", fn |-> "_ensure_valid_repository",
                git_folder |-> TRUE, files |-> TRUE, commits |-> TRUE,
                head |-> "valid", origin |-> "current", branch |-> "current",
                err |-> "none", disk |-> "valid", history |-> 1,
                head_at |-> 1, created |-> 0, content |-> "none",
                staged |-> FALSE]

\* ------------------------------------------------------------ repository
\* repo.is_dirty(): index or working tree differs from HEAD; untracked
\* files are not counted (GitPython's default untracked_files=False).
is_dirty == \E x \in Changes : chg[x] \in {"wt", "index"}

\* The modifications repo.is_dirty() looks for: those of tracked files that
\* are in no commit.
uncommitted == {x \in Changes : chg[x] \in {"wt", "index"}}

\* The changes made to the files of the directory so far.
files_changed == {x \in Changes : chg[x] # "none"}

\* repo.index.diff('HEAD'): the staged tree differs from HEAD.
index_diff_HEAD == \E x \in Changes : chg[x] = "index"

\* repo.index.diff(None): the working tree differs from the index.
index_diff_None == \E x \in Changes : chg[x] = "wt"

\* repo.untracked_files
untracked_files == \E x \in Changes : chg[x] = "untracked"

\* (mutant) only the modifications of tracked files are staged.
index_add_update == [x \in Changes |-> IF chg[x] = "wt" THEN "index" ELSE chg[x]]

\* repo.index.add('*'): stage every modification and every untracked file.
index_add == [x \in Changes |->
                IF chg[x] \in {"wt", "untracked"} THEN "index" ELSE chg[x]]

\* repo.index.commit(message): the staged tree becomes a commit of the
\* local branch.
index_commit == [x \in Changes |-> IF chg[x] = "index" THEN "local" ELSE chg[x]]

\* The local branch has commits that origin/<branch> does not have.
LocalAhead == ahead \/ \E x \in Changes : chg[x] = "local"

\* A successful push: the local commits reach the remote branch.
pushed_chg == [x \in Changes |-> IF chg[x] = "local" THEN "remote" ELSE chg[x]]

\* git reset --hard origin/<branch>: staged and unstaged modifications and
\* the commits that are only local are dropped from the branch; untracked
\* files stay.
reset_hard == [x \in Changes |->
                 IF chg[x] \in {"wt", "index", "local"} THEN "lost" ELSE chg[x]]

\* The remote-tracking ref after it has been moved: a ref it did not have
\* before.
MovedRef(r) == IF r = "r0" THEN "r1" ELSE "r0"

\* The remote-tracking ref after a pull fetched the remote branch.
fetched_trk == IF trk = "none" \/ incoming = "remote" THEN MovedRef(trk) ELSE trk

\* The names r0, r1 of the commits origin/<branch> points at only tell two
\* tips apart; once no local of _commit_and_push holds one, the tip is r0.
renamed_trk == IF trk = "none" THEN "none" ELSE "r0"

\* ------------------------------------------------------------------ Init
\* The pair as its constructor leaves it: last_sync_time = 0, the lock free,
\* a handler with last_event_time = 0, the clock far past both.  The
\* repository is either one that already follows origin/<branch>, or a new
\* one whose initial commit has not been pushed and that has no
\* remote-tracking ref yet.
Init ==
  /\ now = StartTime
  /\ autocommit_time \in AutocommitTimes
  /\ sync_lock = FALSE
  /\ last_sync_time = 0
  /\ last_event_time = 0
  /\ pc = [c \in Contexts |-> "idle"]
  /\ call = [c \in Contexts |-> NoCall]
  /\ chg = [x \in Changes |-> "none"]
  /\ incoming = "no"
  /\ trk \in {"none", "r0"}
  /\ ahead = (trk = "none")
  /\ hc = NoHas
  /\ sched = NoSched
  /\ ctor = Constructed
  /\ mgr = Started

\* ----------------------------------------------------------- environment
\* The clock advances.
Tick ==
  /\ now < StartTime + MaxTicks
  /\ now' = now + 1
  /\ UNCHANGED <<autocommit_time, sync_lock, last_sync_time, last_event_time,
                 pc, call, chg, incoming, trk, ahead, hc, sched, ctor, mgr>>

\* The user modifies a tracked file or creates a file in the directory.
UserEdit ==
  \E x \in Changes, k \in {"wt", "untracked"} :
    /\ chg[x] = "none"
    /\ chg' = [chg EXCEPT ![x] = k]
    /\ UNCHANGED <<now, autocommit_time, sync_lock, last_sync_time,
                   last_event_time, pc, call, incoming, trk, ahead, hc, sched, ctor, mgr>>

\* Somebody else pushes to the remote branch.
RemoteMove ==
  /\ incoming = "no"
  /\ incoming' = "remote"
  /\ UNCHANGED <<now, autocommit_time, sync_lock, last_sync_time,
                 last_event_time, pc, call, chg, trk, ahead, hc, sched, ctor, mgr>>

\* -------------------------------------------------------------- triggers
\* (mutant) no debounce: every event triggers.
should_trigger_always == TRUE

\* SyncEventHandler._should_trigger_sync
should_trigger_sync == now - last_event_time > debounce_time

\* (mutant) the lock is taken without looking at it.
acquire_always == TRUE

\* self.sync_lock.acquire(blocking=False) succeeds.
acquire_nonblocking == ~sync_lock

\* sync(): the guard, taken as the call starts.  A held lock makes the call
\* return at once; otherwise the lock is taken and the rate limit is next.
sync_acquire(c) ==
  IF acquire_nonblocking
    THEN /\ sync_lock' = TRUE
         /\ pc' = [pc EXCEPT ![c] = "check"]
         /\ call' = call
    ELSE /\ sync_lock' = sync_lock
         /\ pc' = [pc EXCEPT ![c] = "ret"]
         /\ call' = [call EXCEPT ![c].outcome = "busy",
                                 ![c].pending = files_changed]

\* (mutant) the event is recorded as accepted only when its sync() call
\* finds the guard free.
handle_event_if_synced(is_directory) ==
  /\ pc["watcher"] = "idle"
  /\ IF ~is_directory /\ should_trigger_sync
       THEN /\ last_event_time' = IF acquire_nonblocking THEN now
                                  ELSE last_event_time
            /\ sync_acquire("watcher")
       ELSE UNCHANGED <<last_event_time, pc, sync_lock, call>>
  /\ UNCHANGED <<now, autocommit_time, last_sync_time,
                 chg, incoming, trk, ahead, hc, sched, ctor, mgr>>

\* SyncEventHandler.on_modified / on_created / on_deleted (the same code):
\* the observer thread delivers one event; an accepted one calls sync().
handle_event(is_directory) ==
  /\ pc["watcher"] = "idle"
  /\ IF ~is_directory /\ should_trigger_sync
       THEN /\ last_event_time' = now
            /\ sync_acquire("watcher")
       ELSE UNCHANGED <<last_event_time, pc, sync_lock, call>>
  /\ UNCHANGED <<now, autocommit_time, last_sync_time,
                 chg, incoming, trk, ahead, hc, sched, ctor, mgr>>

\* The observer delivers an event of a file or of a directory.
on_event == \E is_directory \in BOOLEAN : handle_event(is_directory)

\* The scheduled sync (sync_all, _start_scheduled_sync_async) calls sync().
sync_all ==
  /\ pc["scheduler"] = "idle"
  /\ sync_acquire("scheduler")
  /\ UNCHANGED <<now, autocommit_time, last_sync_time,
                 last_event_time, chg, incoming, trk, ahead, hc, sched, ctor, mgr>>

\* ---------------------------------------------------------- SyncPair.sync
\* (mutant) the rate limit is not applied.
rate_limited_never(t) == FALSE

\* (mutant) every call is inside the rate limit.
rate_limited_always(t) == TRUE

\* current_time - self.last_sync_time < self.autocommit_time
rate_limited(t) == t - last_sync_time < autocommit_time

\* (mutant) except git.exc.GitCommandError in sync().
sync_catches_git(e) == e \in GitCommandErrors

\* except Exception: every exception a repository call raises is one.
sync_catches(e) == e \in GitCommandErrors \cup {"exc"}

\* except git.exc.GitCommandError
pull_catches(e) == e \in GitCommandErrors

\* (mutant) the handler has no merge-conflict branch.
pull_handler_no_conflict(e) == IF e = "untracked" THEN "p_uadd" ELSE "p_reset"

\* The branch of _pull_changes' handler an error text selects.
pull_handler(e) ==
  IF e = "conflict" THEN "p_abort"
  ELSE IF e = "untracked" THEN "p_uadd"
  ELSE "p_reset"

\* sync(): the rate limit.
sync_check(c) ==
  /\ pc[c] = "check"
  /\ IF rate_limited(now)
       THEN /\ pc' = [pc EXCEPT ![c] = "release"]
            /\ call' = [call EXCEPT ![c].current_time = now,
                                    ![c].outcome = "ratelimited"]
       ELSE /\ pc' = [pc EXCEPT ![c] = "p_dirty"]
            /\ call' = [call EXCEPT ![c].current_time = now]
  /\ UNCHANGED <<now, autocommit_time, sync_lock, last_sync_time,
                 last_event_time, chg, incoming, trk, ahead, hc, sched, ctor, mgr>>

\* sync(): self.last_sync_time = current_time, after both steps returned.
sync_done(c) ==
  /\ pc[c] = "s_done"
  /\ last_sync_time' = call[c].current_time
  /\ pc' = [pc EXCEPT ![c] = "release"]
  /\ call' = [call EXCEPT ![c].outcome = "done"]
  /\ UNCHANGED <<now, autocommit_time, sync_lock, last_event_time,
                 chg, incoming, trk, ahead, hc, sched, ctor, mgr>>

\* sync(): an exception of _pull_changes or _commit_and_push reaches the
\* except clause, which logs it; one it does not catch leaves sync().
\* Either way the finally clause runs next.
sync_except(c) ==
  /\ pc[c] = "s_except"
  /\ pc' = [pc EXCEPT ![c] = "release"]
  /\ call' = [call EXCEPT ![c].outcome =
                IF sync_catches(call[c].err) THEN "caught" ELSE "raised"]
  /\ UNCHANGED <<now, autocommit_time, sync_lock, last_sync_time,
                 last_event_time, chg, incoming, trk, ahead, hc, sched, ctor, mgr>>

\* (mutant) the lock is released at the end of the try block, not in a
\* finally clause: not when the except clause ran.
sync_release_in_try(c) ==
  /\ pc[c] = "release"
  /\ sync_lock' = IF call[c].outcome = "caught" THEN sync_lock ELSE FALSE
  /\ pc' = [pc EXCEPT ![c] = "ret"]
  /\ call' = [call EXCEPT ![c].current_time = 0, ![c].err = "none"]
  /\ UNCHANGED <<now, autocommit_time, last_sync_time, last_event_time,
                 chg, incoming, trk, ahead, hc, sched, ctor, mgr>>

\* sync(): finally: self.sync_lock.release()
sync_release(c) ==
  /\ pc[c] = "release"
  /\ sync_lock' = FALSE
  /\ pc' = [pc EXCEPT ![c] = "ret"]
  /\ call' = [call EXCEPT ![c].current_time = 0, ![c].err = "none"]
  /\ UNCHANGED <<now, autocommit_time, last_sync_time, last_event_time,
                 chg, incoming, trk, ahead, hc, sched, ctor, mgr>>

\* sync() is back at its caller.
sync_return(c) ==
  /\ pc[c] = "ret"
  /\ pc' = [pc EXCEPT ![c] = "idle"]
  /\ call' = [call EXCEPT ![c] = NoCall]
  /\ UNCHANGED <<now, autocommit_time, sync_lock, last_sync_time,
                 last_event_time, chg, incoming, trk, ahead, hc, sched, ctor, mgr>>

\* ------------------------------------------------ SyncPair._pull_changes
\* Where control goes when a call in the try block of _pull_changes raises
\* e: into the handler's branch, or out of _pull_changes.
pull_raise(e) == IF pull_catches(e) THEN pull_handler(e) ELSE "p_return"

\* A successful git pull: the remote's commits are merged.
pull_ok_ahead == ahead \/ (incoming # "no" /\ LocalAhead)

\* if self.repo.is_dirty(): self._commit_and_push()
pull_dirty(c) ==
  /\ pc[c] = "p_dirty"
  /\ \E o \in {"ok", "other"} :
       IF o = "ok"
         THEN /\ pc' = [pc EXCEPT ![c] = IF is_dirty THEN "cp_add" ELSE "p_branch"]
              /\ call' = [call EXCEPT ![c].touched = TRUE, ![c].dirty = uncommitted,
                                      ![c].frame = IF is_dirty THEN "pull" ELSE "none"]
         ELSE /\ pc' = [pc EXCEPT ![c] = pull_raise(o)]
              /\ call' = [call EXCEPT ![c].touched = TRUE, ![c].dirty = uncommitted,
                            ![c].err = o,
                            ![c].pullRes = IF pull_catches(o) THEN "none" ELSE "raised"]
  /\ UNCHANGED <<now, autocommit_time, sync_lock, last_sync_time,
                 last_event_time, chg, incoming, trk, ahead, hc, sched, ctor, mgr>>

\* current_branch = self.repo.active_branch.name (a TypeError when HEAD is
\* detached); if current_branch != self.branch: checkout
pull_branch(c) ==
  /\ pc[c] = "p_branch"
  /\ \E o \in {"same", "differs", "exc"} :
       IF o = "exc"
         THEN /\ pc' = [pc EXCEPT ![c] = pull_raise(o)]
              /\ call' = [call EXCEPT ![c].err = o,
                            ![c].pullRes = IF pull_catches(o) THEN "none" ELSE "raised"]
         ELSE /\ pc' = [pc EXCEPT ![c] = IF o = "same" THEN "p_pull" ELSE "p_checkout"]
              /\ call' = call
  /\ UNCHANGED <<now, autocommit_time, sync_lock, last_sync_time,
                 last_event_time, chg, incoming, trk, ahead, hc, sched, ctor, mgr>>

\* self.repo.git.checkout(self.branch)
pull_checkout(c) ==
  /\ pc[c] = "p_checkout"
  /\ \E o \in {"ok"} \cup GitCommandErrors :
       IF o = "ok"
         THEN /\ pc' = [pc EXCEPT ![c] = "p_pull"]
              /\ call' = call
         ELSE /\ pc' = [pc EXCEPT ![c] = pull_raise(o)]
              /\ call' = [call EXCEPT ![c].err = o,
                            ![c].pullRes = IF pull_catches(o) THEN "none" ELSE "raised"]
  /\ UNCHANGED <<now, autocommit_time, sync_lock, last_sync_time,
                 last_event_time, chg, incoming, trk, ahead, hc, sched, ctor, mgr>>

\* The outcomes a git pull can have: a merge conflict or a collision with
\* untracked files needs commits to merge.
PullOutcomes ==
  {"ok", "other"} \cup (IF incoming # "no" THEN {"conflict", "untracked"} ELSE {})

\* old_head; self.repo.git.pull(...); new_head; return old_head != new_head
\* (HEAD moves exactly when the pull merged commits).
pull_pull(c) ==
  /\ pc[c] = "p_pull"
  /\ \E o \in PullOutcomes :
       /\ IF o = "ok"
            THEN /\ pc' = [pc EXCEPT ![c] = "p_return"]
                 /\ call' = [call EXCEPT ![c].plog = <<<<"pull", o>>>>,
                               ![c].pullRes = IF incoming # "no" THEN "true" ELSE "false"]
            ELSE /\ pc' = [pc EXCEPT ![c] = pull_raise(o)]
                 /\ call' = [call EXCEPT ![c].plog = <<<<"pull", o>>>>, ![c].err = o,
                               ![c].pullRes = IF pull_catches(o) THEN "none" ELSE "raised"]
       /\ incoming' = IF o = "ok" THEN "no" ELSE incoming
       /\ trk' = IF o = "ok" THEN fetched_trk ELSE trk
       /\ ahead' = IF o = "ok" THEN pull_ok_ahead ELSE ahead
  /\ UNCHANGED <<now, autocommit_time, sync_lock, last_sync_time,
                 last_event_time, chg, hc, sched, ctor, mgr>>

\* merge conflict: self.repo.git.merge('--abort'); its failure is passed.
pull_abort(c) ==
  /\ pc[c] = "p_abort"
  /\ \E o \in {"ok", "other"} :
       /\ pc' = [pc EXCEPT ![c] = "p_creset"]
       /\ call' = [call EXCEPT ![c].plog = Append(@, <<"merge_abort", o>>)]
  /\ UNCHANGED <<now, autocommit_time, sync_lock, last_sync_time,
                 last_event_time, chg, incoming, trk, ahead, hc, sched, ctor, mgr>>

\* The outcomes of git reset --hard origin/<branch>: it needs the ref.
ResetOutcomes == {"other"} \cup (IF trk # "none" THEN {"ok"} ELSE {})

\* merge conflict: self.repo.git.reset('--hard', 'origin/<branch>')
pull_conflict_reset(c) ==
  /\ pc[c] = "p_creset"
  /\ \E o \in ResetOutcomes :
       /\ pc' = [pc EXCEPT ![c] = IF o = "ok" THEN "p_cpull" ELSE "p_return"]
       /\ call' = [call EXCEPT ![c].plog = Append(@, <<"reset", o>>),
                     ![c].pullRes = IF o = "ok" THEN "none" ELSE "false"]
       /\ chg' = IF o = "ok" THEN reset_hard ELSE chg
       /\ ahead' = IF o = "ok" THEN FALSE ELSE ahead
  /\ UNCHANGED <<now, autocommit_time, sync_lock, last_sync_time,
                 last_event_time, incoming, trk, hc, sched, ctor, mgr>>

\* merge conflict and untracked files: the pull is tried again; return True
\* when it succeeds, the handler's except clause and return False otherwise.
pull_retry(c) ==
  /\ pc[c] \in {"p_cpull", "p_upull"}
  /\ \E o \in PullOutcomes :
       /\ pc' = [pc EXCEPT ![c] = "p_return"]
       /\ call' = [call EXCEPT ![c].plog = Append(@, <<"pull", o>>),
                     ![c].pullRes = IF o = "ok" THEN "true" ELSE "false"]
       /\ incoming' = IF o = "ok" THEN "no" ELSE incoming
       /\ trk' = IF o = "ok" THEN fetched_trk ELSE trk
       /\ ahead' = IF o = "ok" THEN pull_ok_ahead ELSE ahead
  /\ UNCHANGED <<now, autocommit_time, sync_lock, last_sync_time,
                 last_event_time, chg, hc, sched, ctor, mgr>>

\* untracked files: self.repo.index.add('*'); an exception that is no
\* GitCommandError leaves _pull_changes.
pull_untracked_add(c) ==
  /\ pc[c] = "p_uadd"
  /\ \E o \in {"ok", "exc"} :
       /\ pc' = [pc EXCEPT ![c] = IF o = "ok" THEN "p_ucommit" ELSE "p_return"]
       /\ call' = [call EXCEPT ![c].plog = Append(@, <<"index_add", o>>),
                     ![c].err = IF o = "ok" THEN @ ELSE o,
                     ![c].pullRes = IF o = "ok" THEN "none" ELSE "raised"]
       /\ chg' = IF o = "ok" THEN index_add ELSE chg
  /\ UNCHANGED <<now, autocommit_time, sync_lock, last_sync_time,
                 last_event_time, incoming, trk, ahead, hc, sched, ctor, mgr>>

\* untracked files: self.repo.index.commit("Add untracked files")
pull_untracked_commit(c) ==
  /\ pc[c] = "p_ucommit"
  /\ \E o \in {"ok", "exc"} :
       /\ pc' = [pc EXCEPT ![c] = IF o = "ok" THEN "p_upull" ELSE "p_return"]
       /\ call' = [call EXCEPT ![c].plog = Append(@, <<"index_commit", o>>),
                     ![c].err = IF o = "ok" THEN @ ELSE o,
                     ![c].pullRes = IF o = "ok" THEN "none" ELSE "raised"]
       /\ chg' = IF o = "ok" THEN index_commit ELSE chg
       /\ ahead' = IF o = "ok" THEN (ahead \/ ~index_diff_HEAD) ELSE ahead
  /\ UNCHANGED <<now, autocommit_time, sync_lock, last_sync_time,
                 last_event_time, incoming, trk, hc, sched, ctor, mgr>>

\* any other failure: self.repo.git.reset('--hard', 'origin/<branch>');
\* return True when the reset succeeds, False otherwise.
pull_reset(c) ==
  /\ pc[c] = "p_reset"
  /\ \E o \in ResetOutcomes :
       /\ pc' = [pc EXCEPT ![c] = "p_return"]
       /\ call' = [call EXCEPT ![c].plog = Append(@, <<"reset", o>>),
                     ![c].pullRes = IF o = "ok" THEN "true" ELSE "false"]
       /\ chg' = IF o = "ok" THEN reset_hard ELSE chg
       /\ ahead' = IF o = "ok" THEN FALSE ELSE ahead
  /\ UNCHANGED <<now, autocommit_time, sync_lock, last_sync_time,
                 last_event_time, incoming, trk, hc, sched, ctor, mgr>>

\* (mutant) sync() commits and pushes only after a pull that returned True.
after_pull_if_pulled(pulled) ==
  IF pulled = "raised" THEN "s_except"
  ELSE IF pulled = "true" THEN "cp_add" ELSE "s_done"

\* sync(): pulled = self._pull_changes(); if not pulled: logger.info(...);
\* committed_and_pushed = self._commit_and_push().  Where sync() goes when
\* _pull_changes is over: on to _commit_and_push whatever it returned, or,
\* with its exception, to the except clause.
after_pull(pulled) == IF pulled = "raised" THEN "s_except" ELSE "cp_add"

\* _pull_changes is back in sync(): its exception goes to sync()'s except
\* clause; otherwise sync() calls _commit_and_push.
pull_return(c) ==
  /\ pc[c] = "p_return"
  /\ pc' = [pc EXCEPT ![c] = after_pull(call[c].pullRes)]
  /\ IF call[c].pullRes = "raised"
       THEN call' = [call EXCEPT ![c].plog = <<>>, ![c].pullRes = "none",
                       ![c].dirty = {}, ![c].cp1 = <<>>]
       ELSE call' = [call EXCEPT ![c].plog = <<>>, ![c].pullRes = "none",
                       ![c].dirty = {}, ![c].err = "none", ![c].frame = "sync"]
  /\ UNCHANGED <<now, autocommit_time, sync_lock, last_sync_time,
                 last_event_time, chg, incoming, trk, ahead, hc, sched, ctor, mgr>>

\* --------------------------------------------- SyncPair._commit_and_push
\* _commit_and_push has no try block: an exception of one of its calls
\* leaves it.
cp_catches(e) == FALSE

\* A call of _commit_and_push raised e: the locals after it.
cp_raise(c, e) ==
  [call EXCEPT ![c].err = e,
               ![c].cpRes = IF cp_catches(e) THEN "false" ELSE "raised"]

\* self.repo.index.add('*'); committed = False; pushed = False
cp_add(c) ==
  /\ pc[c] = "cp_add"
  /\ \E o \in {"ok", "exc"} :
       /\ pc' = [pc EXCEPT ![c] = IF o = "ok" THEN "cp_diff" ELSE "cp_return"]
       /\ call' = IF o = "ok"
                    THEN [call EXCEPT ![c].committed = FALSE,
                                      ![c].made = files_changed]
                    ELSE [cp_raise(c, o) EXCEPT ![c].made = files_changed]
       /\ chg' = IF o = "ok" THEN index_add ELSE chg
  /\ UNCHANGED <<now, autocommit_time, sync_lock, last_sync_time,
                 last_event_time, incoming, trk, ahead, hc, sched, ctor, mgr>>

\* if self.repo.index.diff('HEAD'):
cp_diff(c) ==
  /\ pc[c] = "cp_diff"
  /\ \E o \in {"ok", "other", "exc"} :
       /\ pc' = [pc EXCEPT ![c] =
                   IF o # "ok" THEN "cp_return"
                   ELSE IF index_diff_HEAD THEN "cp_commit" ELSE "cp_ref"]
       /\ call' = IF o = "ok" THEN call ELSE cp_raise(c, o)
  /\ UNCHANGED <<now, autocommit_time, sync_lock, last_sync_time,
                 last_event_time, chg, incoming, trk, ahead, hc, sched, ctor, mgr>>

\* The characters of the decimal digits.
Digit(d) == <<"0", "1", "2", "3", "4", "5", "6", "7", "8", "9">>[d + 1]

\* The decimal digits of n, padded with zeros to the width w.
RECURSIVE Pad(_, _)
Pad(n, w) == IF w = 0 THEN <<>> ELSE Append(Pad(n \div 10, w - 1), Digit(n % 10))

\* datetime.now(): the local date and time at the clock value t, for a
\* clock that started at midnight of a January 1st.
datetime_now(t) ==
  [year |-> 2025, month |-> 1, day |-> 1,
   hour |-> (t \div 3600) % 24, minute |-> (t \div 60) % 60, second |-> t % 60]

\* The format string "%Y-%m-%d %H:%M:%S": directives and literal characters.
timestamp_format ==
  <<"%Y", "-", "%m", "-", "%d", " ", "%H", ":", "%M", ":", "%S">>

\* What strftime writes for one item of a format string.
directive(dt, f) ==
  IF f = "%Y" THEN Pad(dt.year, 4)
  ELSE IF f = "%m" THEN Pad(dt.month, 2)
  ELSE IF f = "%d" THEN Pad(dt.day, 2)
  ELSE IF f = "%H" THEN Pad(dt.hour, 2)
  ELSE IF f = "%M" THEN Pad(dt.minute, 2)
  ELSE IF f = "%S" THEN Pad(dt.second, 2)
  ELSE <<f>>

\* dt.strftime(fmt): the characters written for the items of fmt, in order.
RECURSIVE strftime(_, _)
strftime(dt, fmt) ==
  IF fmt = <<>> THEN <<>>
  ELSE directive(dt, Head(fmt)) \o strftime(dt, Tail(fmt))

\* The default of commit_message_template, 'Sync: {timestamp}': literal
\* characters and replacement fields.
commit_message_template == <<"S", "y", "n", "c", ":", " ", "{timestamp}">>

\* (mutant) the template is used as the message, its field left in place.
format_nothing(template, timestamp) == template

\* template.format(timestamp=timestamp): the field is replaced by the
\* characters of the timestamp.
RECURSIVE format(_, _)
format(template, timestamp) ==
  IF template = <<>> THEN <<>>
  ELSE (IF Head(template) = "{timestamp}" THEN timestamp ELSE <<Head(template)>>)
         \o format(Tail(template), timestamp)

\* timestamp = datetime.now().strftime(...);
\* commit_message = self.commit_message_template.format(timestamp=timestamp);
\* self.repo.index.commit(commit_message); committed = True
cp_commit(c) ==
  /\ pc[c] = "cp_commit"
  /\ \E o \in {"ok", "exc"} :
       /\ pc' = [pc EXCEPT ![c] = IF o = "ok" THEN "cp_ref" ELSE "cp_return"]
       /\ call' = IF o = "ok"
                    THEN [call EXCEPT
                            ![c].committed = TRUE,
                            ![c].commit_message =
                              format(commit_message_template,
                                     strftime(datetime_now(now), timestamp_format))]
                    ELSE cp_raise(c, o)
       /\ chg' = IF o = "ok" THEN index_commit ELSE chg
  /\ UNCHANGED <<now, autocommit_time, sync_lock, last_sync_time,
                 last_event_time, incoming, trk, ahead, hc, sched, ctor, mgr>>

\* remote_ref = origin.refs[branch] if branch in origin.refs else None;
\* old_remote_head = remote_ref.commit.hexsha if remote_ref else None
cp_ref(c) ==
  /\ pc[c] = "cp_ref"
  /\ \E o \in {"ok", "exc"} :
       /\ pc' = [pc EXCEPT ![c] = IF o = "ok" THEN "cp_push" ELSE "cp_return"]
       /\ call' = IF o = "ok" THEN [call EXCEPT ![c].old_remote_head = trk]
                  ELSE cp_raise(c, o)
  /\ UNCHANGED <<now, autocommit_time, sync_lock, last_sync_time,
                 last_event_time, chg, incoming, trk, ahead, hc, sched, ctor, mgr>>

\* The outcomes of origin.push(branch): it goes through only as a fast
\* forward; a rejected push returns without raising; a push that produced
\* no output (no network) raises a GitCommandError.
PushOutcomes == {"rejected", "other"} \cup (IF incoming = "no" THEN {"ok"} ELSE {})

\* The remote-tracking ref after a push that went through.
pushed_trk == IF trk = "none" \/ LocalAhead THEN MovedRef(trk) ELSE trk

\* push_result = self.repo.remotes.origin.push(self.branch)
cp_push(c) ==
  /\ pc[c] = "cp_push"
  /\ \E o \in PushOutcomes :
       /\ pc' = [pc EXCEPT ![c] = IF o = "other" THEN "cp_return" ELSE "cp_ref2"]
       /\ call' = IF o = "other"
                    THEN [cp_raise(c, o) EXCEPT ![c].push_result = o]
                    ELSE [call EXCEPT ![c].push_result = o]
       /\ chg' = IF o = "ok" THEN pushed_chg ELSE chg
       /\ trk' = IF o = "ok" THEN pushed_trk ELSE trk
       /\ ahead' = IF o = "ok" THEN FALSE ELSE ahead
  /\ UNCHANGED <<now, autocommit_time, sync_lock, last_sync_time,
                 last_event_time, incoming, hc, sched, ctor, mgr>>

\* (mutant) the push is never seen to have moved the ref.
pushed_never(old_remote_head, new_remote_head) == FALSE

\* (mutant) a ref that was not there before the push counts as not moved.
pushed_if_known(old_remote_head, new_remote_head) ==
  old_remote_head # "none" /\ old_remote_head # new_remote_head

\* pushed = old_remote_head != new_remote_head
pushed(old_remote_head, new_remote_head) == old_remote_head # new_remote_head

\* new_remote_head = ...; return committed or pushed
cp_ref2(c) ==
  /\ pc[c] = "cp_ref2"
  /\ \E o \in {"ok", "exc"} :
       /\ pc' = [pc EXCEPT ![c] = "cp_return"]
       /\ call' = IF o = "ok"
                    THEN [call EXCEPT ![c].cpRes =
                            IF call[c].committed \/ pushed(call[c].old_remote_head, trk)
                              THEN "true" ELSE "false"]
                    ELSE cp_raise(c, o)
  /\ UNCHANGED <<now, autocommit_time, sync_lock, last_sync_time,
                 last_event_time, chg, incoming, trk, ahead, hc, sched, ctor, mgr>>

\* What a _commit_and_push call that is over did.
cp_record(c) ==
  [made |-> call[c].made, committed |-> call[c].committed,
   push_result |-> call[c].push_result, cpRes |-> call[c].cpRes]

\* _commit_and_push is back at its caller.  In _pull_changes the call is in
\* the try block, its result is dropped; in sync() the timestamp is next.
cp_return(c) ==
  /\ pc[c] = "cp_return"
  /\ LET over == [call EXCEPT ![c].cpRes = "none", ![c].frame = "none",
                               ![c].committed = FALSE,
                               ![c].old_remote_head = "none",
                               ![c].push_result = "none", ![c].made = {},
                               ![c].commit_message = <<>>,
                               ![c].cp1 = IF call[c].frame = "pull"
                                            THEN <<cp_record(c)>> ELSE <<>>]
     IN
     IF call[c].cpRes = "raised"
       THEN IF call[c].frame = "pull"
              THEN /\ pc' = [pc EXCEPT ![c] = pull_raise(call[c].err)]
                   /\ call' = [over EXCEPT ![c].pullRes =
                                 IF pull_catches(call[c].err) THEN "none" ELSE "raised"]
              ELSE /\ pc' = [pc EXCEPT ![c] = "s_except"]
                   /\ call' = over
       ELSE /\ pc' = [pc EXCEPT ![c] = IF call[c].frame = "pull" THEN "p_branch" ELSE "s_done"]
            /\ call' = over
  /\ trk' = renamed_trk
  /\ UNCHANGED <<now, autocommit_time, sync_lock, last_sync_time,
                 last_event_time, chg, incoming, ahead, hc, sched, ctor, mgr>>

\* ------------------------------------------------- SyncPair._has_changes
\* except (ValueError, git.exc.BadName): HEAD does not resolve.
has_catches_nohead(e) == e = "valueerror"

\* except Exception as e
has_catches(e) == e \in GitCommandErrors \cup {"valueerror", "exc"}

\* The try block: self.repo.head.commit, then
\* bool(self.repo.index.diff('HEAD') or self.repo.untracked_files),
\* with the outcomes h, d, u of the three calls: the exception raised
\* (with the call that raised it), or the value returned.
has_try(h, d, u) ==
  IF h # "ok" THEN [failed |-> <<"head_commit", h>>, res |-> "raised"]
  ELSE IF d # "ok" THEN [failed |-> <<"index_diff_HEAD", d>>, res |-> "raised"]
  ELSE IF index_diff_HEAD THEN [failed |-> <<>>, res |-> "true"]
  ELSE IF u # "ok" THEN [failed |-> <<"untracked_files", u>>, res |-> "raised"]
  ELSE [failed |-> <<>>, res |-> IF untracked_files THEN "true" ELSE "false"]

\* The except (ValueError, BadName) block:
\* bool(self.repo.untracked_files or any(self.repo.index.diff(None))),
\* with the outcomes u, w of the two calls.  It is not inside a try block.
has_fallback(u, w) ==
  IF u # "ok" THEN [failed |-> <<"untracked_files", u>>, res |-> "raised"]
  ELSE IF untracked_files THEN [failed |-> <<>>, res |-> "true"]
  ELSE IF w # "ok" THEN [failed |-> <<"index_diff_None", w>>, res |-> "raised"]
  ELSE [failed |-> <<>>, res |-> IF index_diff_None THEN "true" ELSE "false"]

\* _has_changes() with the outcomes of its repository calls.
has_changes(h, d, u, u2, w) ==
  LET t == has_try(h, d, u) IN
  IF t.res # "raised"
    THEN [path |-> "try", failed |-> t.failed, res |-> t.res]
  ELSE IF has_catches_nohead(t.failed[2])
    THEN LET f == has_fallback(u2, w) IN
         [path |-> "fallback", failed |-> f.failed, res |-> f.res]
  ELSE IF has_catches(t.failed[2])
    THEN [path |-> "try", failed |-> t.failed, res |-> "false"]
  ELSE [path |-> "try", failed |-> t.failed, res |-> "raised"]

\* A caller (the test command of cli.py) asks whether there are changes.
has_changes_call ==
  /\ \E h \in {"ok", "valueerror", "exc"},
        d \in {"ok", "valueerror", "other"},
        u \in {"ok", "other"},
        u2 \in {"ok", "other"},
        w \in {"ok", "other"} :
       hc' = has_changes(h, d, u, u2, w)
  /\ UNCHANGED <<now, autocommit_time, sync_lock, last_sync_time,
                 last_event_time, pc, call, chg, incoming, trk, ahead, sched, ctor, mgr>>

\* The user stages a modification (git add) or commits what is staged.
UserStage ==
  \E x \in Changes :
    /\ chg[x] \in {"wt", "untracked", "index"}
    /\ chg' = [chg EXCEPT ![x] = IF chg[x] = "index" THEN "local" ELSE "index"]
    /\ UNCHANGED <<now, autocommit_time, sync_lock, last_sync_time,
                   last_event_time, pc, call, incoming, trk, ahead, hc, sched, ctor, mgr>>

\* -------------------------------------------------------------------- Next
Next ==
  \/ Tick
  \/ UserEdit
  \/ RemoteMove
  \/ on_event
  \/ sync_all
  \/ \E c \in Contexts : sync_check(c)
  \/ \E c \in Contexts : pull_dirty(c)
  \/ \E c \in Contexts : pull_branch(c)
  \/ \E c \in Contexts : pull_checkout(c)
  \/ \E c \in Contexts : pull_pull(c)
  \/ \E c \in Contexts : pull_abort(c)
  \/ \E c \in Contexts : pull_conflict_reset(c)
  \/ \E c \in Contexts : pull_retry(c)
  \/ \E c \in Contexts : pull_untracked_add(c)
  \/ \E c \in Contexts : pull_untracked_commit(c)
  \/ \E c \in Contexts : pull_reset(c)
  \/ \E c \in Contexts : pull_return(c)
  \/ \E c \in Contexts : cp_add(c)
  \/ \E c \in Contexts : cp_diff(c)
  \/ \E c \in Contexts : cp_commit(c)
  \/ \E c \in Contexts : cp_ref(c)
  \/ \E c \in Contexts : cp_push(c)
  \/ \E c \in Contexts : cp_ref2(c)
  \/ \E c \in Contexts : cp_return(c)
  \/ \E c \in Contexts : sync_done(c)
  \/ \E c \in Contexts : sync_except(c)
  \/ \E c \in Contexts : sync_release(c)
  \/ \E c \in Contexts : sync_return(c)

Spec == Init /\ [][Next]_vars

\* ------------------------------------------- a run without failing calls
\* A stored time, one second later on a clock whose origin has moved by one
\* second.  A time that is `window` or more seconds before `now` stays:
\* it is outside the window and remains so, as on the unbounded clock.
Older(t, window) == IF now - t < window THEN t - 1 ELSE t

\* The clock advances, without end: the origin of the clock moves instead
\* of `now`, so every stored time is one second older.  The times sync()
\* stores are compared with autocommit_time (t - last_sync_time <
\* autocommit_time), the time of the last event with debounce_time
\* (now - last_event_time > debounce_time).
TickLive ==
  /\ now' = now
  /\ last_sync_time' = Older(last_sync_time, autocommit_time)
  /\ last_event_time' = Older(last_event_time, debounce_time + 1)
  /\ call' = [c \in Contexts |->
                [call[c] EXCEPT !.current_time = Older(@, autocommit_time)]]
  /\ UNCHANGED <<autocommit_time, sync_lock, pc, chg, incoming, trk, ahead,
                 hc, sched, ctor, mgr>>

\* The repository and network calls of the step returned: none raised, and
\* the remote took the push unless it has commits the local branch lacks.
Succeeds ==
  \A c \in Contexts :
    /\ call'[c].err = "none"
    /\ call'[c].push_result # "other"
    /\ call'[c].push_result = "rejected" => incoming = "remote"

\* A step of the sync() call of context c in which every call succeeds.
sync_step(c) ==
  /\ \/ sync_check(c)
     \/ pull_dirty(c)
     \/ pull_branch(c)
     \/ pull_checkout(c)
     \/ pull_pull(c)
     \/ pull_return(c)
     \/ cp_add(c)
     \/ cp_diff(c)
     \/ cp_commit(c)
     \/ cp_ref(c)
     \/ cp_push(c)
     \/ cp_ref2(c)
     \/ cp_return(c)
     \/ sync_done(c)
     \/ sync_release(c)
     \/ sync_return(c)
  /\ Succeeds

\* The pair as its constructor leaves it, with a remote branch that may
\* have commits the local branch lacks.
InitLive ==
  /\ now = StartTime
  /\ autocommit_time \in AutocommitTimes
  /\ sync_lock = FALSE
  /\ last_sync_time = 0
  /\ last_event_time = 0
  /\ pc = [c \in Contexts |-> "idle"]
  /\ call = [c \in Contexts |-> NoCall]
  /\ chg = [x \in Changes |-> "none"]
  /\ incoming \in {"no", "remote"}
  /\ trk \in {"none", "r0"}
  /\ ahead = (trk = "none")
  /\ hc = NoHas
  /\ sched = NoSched
  /\ ctor = Constructed
  /\ mgr = Started

\* The pair at work while nobody else pushes and no call fails: the user
\* edits, the watcher delivers events or not, the scheduled sync calls
\* sync(), and the sync() calls go on step by step.
NextLive ==
  \/ TickLive
  \/ UserEdit
  \/ on_event
  \/ sync_all
  \/ \E c \in Contexts : sync_step(c)

\* The clock goes on, the scheduled sync goes on calling sync() (its timer
\* keeps ticking), and a thread that is inside sync() goes on running.
\* Nothing is asked of the user nor of the watcher.
SpecLive ==
  /\ InitLive
  /\ [][NextLive]_vars
  /\ WF_vars(TickLive)
  /\ WF_vars(sync_all)
  /\ \A c \in Contexts : WF_vars(sync_step(c))

\* _has_changes() called on the repository of a constructed pair, between
\* edits of the user.
NextHas ==
  \/ UserEdit
  \/ UserStage
  \/ RemoteMove
  \/ has_changes_call

SpecHas == Init /\ [][NextHas]_vars

\* ------------------------------- SyncManager._start_scheduled_sync_async
\* (mutant) the for loop has no try ... except around the call.
sched_catches_nothing(e) == FALSE

\* except Exception as e: self.logger.error(...)
sched_catches(e) == e = "raised"

\* await asyncio.to_thread(sync_pair.sync): a worker thread calls the
\* pair's sync(), the coroutine waits for it.  With the pair's lock held
\* (here: by its watcher's sync()) the call returns at once.
sched_call(p) ==
  /\ sched.pos = "for"
  /\ mgr.phase = "run"
  /\ sched.i \in DOMAIN mgr.sync_pairs
  /\ p = mgr.sync_pairs[sched.i]
  /\ sched' = IF sched.running[p] = "none"
                 THEN [sched EXCEPT !.pos = "await", !.synced = @ \cup {p},
                                    !.running[p] = "worker"]
                 ELSE [sched EXCEPT !.pos = "await", !.synced = @ \cup {p},
                                    !.res = "returned"]
  /\ UNCHANGED <<now, autocommit_time, sync_lock, last_sync_time,
                 last_event_time, pc, call, chg, incoming, trk, ahead, hc, ctor, mgr>>

\* A pair's sync() that was inside a repository or network call ends: it
\* returns, or an exception leaves it.
sync_ends(p) ==
  /\ sched.running[p] # "none"
  /\ \E o \in {"returned", "raised"} :
       sched' = IF sched.running[p] = "worker"
                  THEN [sched EXCEPT !.running[p] = "none", !.res = o]
                  ELSE [sched EXCEPT !.running[p] = "none"]
  /\ UNCHANGED <<now, autocommit_time, sync_lock, last_sync_time,
                 last_event_time, pc, call, chg, incoming, trk, ahead, hc, ctor, mgr>>

\* The awaited call is over: its exception is logged by the except clause,
\* and the for loop goes to the next pair, or to asyncio.sleep.
sched_resume ==
  /\ sched.pos = "await"
  /\ sched.res # "none"
  /\ sched' =
       IF sched.res = "raised" /\ ~sched_catches(sched.res)
         THEN [sched EXCEPT !.pos = "over", !.res = "none"]
         ELSE [sched EXCEPT
                 !.pos = IF sched.i = Len(mgr.sync_pairs) THEN "sleep" ELSE "for",
                 !.i = IF sched.i = Len(mgr.sync_pairs) THEN 1 ELSE @ + 1,
                 !.errors = IF sched.res = "raised"
                              THEN @ \cup {mgr.sync_pairs[sched.i]} ELSE @,
                 !.res = "none"]
  /\ UNCHANGED <<now, autocommit_time, sync_lock, last_sync_time,
                 last_event_time, pc, call, chg, incoming, trk, ahead, hc, ctor, mgr>>

\* Where the coroutine waits next when a round begins: in the first pair's
\* sync(), or, with no pair registered, in asyncio.sleep again.
first_pos(sync_pairs) == IF sync_pairs = <<>> THEN "sleep" ELSE "for"

\* await asyncio.sleep(sync_interval) is over: the next round.
sched_wake ==
  /\ sched.pos = "sleep"
  /\ sched.tick < MaxSchedTicks
  /\ sched' = [sched EXCEPT !.pos = first_pos(mgr.sync_pairs),
                            !.tick = @ + 1, !.synced = {}]
  /\ UNCHANGED <<now, autocommit_time, sync_lock, last_sync_time,
                 last_event_time, pc, call, chg, incoming, trk, ahead, hc, ctor, mgr>>

\* The observer thread of pair p delivers an event that its handler
\* accepts: the handler calls sync() in that thread.  With the pair's lock
\* held the call returns at once.
watcher_call(p) ==
  /\ mgr.observers[p] = "started"
  /\ sched.running[p] # "observer"
  /\ sched' = IF sched.running[p] = "none"
                 THEN [sched EXCEPT !.running[p] = "observer"]
                 ELSE sched
  /\ UNCHANGED <<now, autocommit_time, sync_lock, last_sync_time,
                 last_event_time, pc, call, chg, incoming, trk, ahead, hc, ctor, mgr>>

\* ----------------------------------------------------------- SyncManager
\* SyncPair._resolve_token: a token_config of the form ${NAME} is read from
\* the environment and raises ValueError when NAME is not set (or empty);
\* any other token_config is the token.
resolve_token(token_config) ==
  IF token_config \in {"${SET}", "${UNSET}"}
    THEN IF token_config = "${UNSET}" THEN "ValueError" ELSE "token"
    ELSE "token"

\* (mutant) the loop of initialize_sync_pairs has no try ... except.
init_catches_nothing(e) == FALSE

\* except Exception as e: logger.error("Failed to initialize sync pair ...")
init_catches(e) == e \in {"ValueError", "Exception"}

everythingButMgr ==
  <<now, autocommit_time, sync_lock, last_sync_time, last_event_time,
    pc, call, chg, incoming, trk, ahead, hc, sched, ctor>>

\* One round of the loop of initialize_sync_pairs: SyncPair(pair_config)
\* resolves the token first and initializes the repository next (the
\* construction ends "ready" or with an error, as in ctor_* above); the pair
\* is registered, or the exception is logged and the loop goes on.
init_pair ==
  /\ mgr.phase = "init"
  /\ mgr.k <= NumPairs
  /\ \E repo \in {"ready", "error"} :
       LET p == mgr.k
           e == IF resolve_token(mgr.config[p]) = "ValueError" THEN "ValueError"
                ELSE IF repo = "error" THEN "Exception"
                ELSE "none"
       IN  mgr' = IF e = "none"
                    THEN [mgr EXCEPT !.sync_pairs = Append(@, p), !.k = @ + 1]
                  ELSE IF init_catches(e)
                    THEN [mgr EXCEPT !.failed = @ \cup {p}, !.k = @ + 1]
                  ELSE [mgr EXCEPT !.phase = "down"]
  /\ UNCHANGED everythingButMgr

\* start_sync after initialize_sync_pairs: one watcher task per registered
\* pair (observer.schedule, observer.start) and the scheduler task.
start_tasks ==
  /\ mgr.phase = "init"
  /\ mgr.k = NumPairs + 1
  /\ mgr' = [mgr EXCEPT
               !.phase = "run",
               !.observers = [p \in Pairs |->
                                IF \E i \in DOMAIN mgr.sync_pairs : mgr.sync_pairs[i] = p
                                  THEN "started" ELSE "none"]]
  /\ sched' = [sched EXCEPT !.pos = first_pos(mgr.sync_pairs)]
  /\ UNCHANGED <<now, autocommit_time, sync_lock, last_sync_time,
                 last_event_time, pc, call, chg, incoming, trk, ahead, hc, ctor>>

\* KeyboardInterrupt: asyncio.run cancels start_sync, whose gather cancels
\* the watcher tasks and the scheduler task.  The scheduler task ends at
\* the await it is in; the thread of asyncio.to_thread is not cancelled.
shutdown ==
  /\ mgr.phase = "run"
  /\ mgr' = [mgr EXCEPT !.phase = "cancel",
                        !.inflight = {p \in Pairs : sched.running[p] # "none"}]
  /\ sched' = [sched EXCEPT !.pos = "over"]
  /\ UNCHANGED <<now, autocommit_time, sync_lock, last_sync_time,
                 last_event_time, pc, call, chg, incoming, trk, ahead, hc, ctor>>

\* finally: observer.stop() of the watcher task of pair p; the finally
\* blocks of the tasks run one after the other, in the order of the tasks.
observer_stop(p) ==
  /\ mgr.phase = "cancel"
  /\ mgr.observers[p] = "started"
  /\ \A i, j \in DOMAIN mgr.sync_pairs :
       (i < j /\ mgr.sync_pairs[j] = p)
         => mgr.observers[mgr.sync_pairs[i]] = "joined"
  /\ mgr' = [mgr EXCEPT !.observers[p] = "stopped"]
  /\ UNCHANGED everythingButMgr

\* observer.join(): returns when the observer thread is over, after the
\* handler it is in (and the sync() the handler called) has returned.
observer_join(p) ==
  /\ mgr.phase = "cancel"
  /\ mgr.observers[p] = "stopped"
  /\ sched.running[p] # "observer"
  /\ mgr' = [mgr EXCEPT !.observers[p] = "joined"]
  /\ UNCHANGED everythingButMgr

\* (mutant) asyncio.run does not wait for the threads of asyncio.to_thread.
executor_idle_always(running) == TRUE

\* asyncio.run(manager.start_sync()) shuts the default executor down before
\* it returns: it waits for the threads of asyncio.to_thread.
executor_idle(running) == \A p \in Pairs : running[p] # "worker"

\* asyncio.run returns: every task is over and the executor is shut down.
shutdown_done ==
  /\ mgr.phase = "cancel"
  /\ \A p \in Pairs : mgr.observers[p] \in {"none", "joined"}
  /\ executor_idle(sched.running)
  /\ mgr' = [mgr EXCEPT !.phase = "down"]
  /\ UNCHANGED everythingButMgr

\* A configuration of NumPairs pairs before initialize_sync_pairs.
InitManager ==
  /\ now = StartTime
  /\ autocommit_time \in AutocommitTimes
  /\ sync_lock = FALSE
  /\ last_sync_time = 0
  /\ last_event_time = 0
  /\ pc = [c \in Contexts |-> "idle"]
  /\ call = [c \in Contexts |-> NoCall]
  /\ chg = [x \in Changes |-> "none"]
  /\ incoming = "no"
  /\ trk = "r0"
  /\ ahead = FALSE
  /\ hc = NoHas
  /\ sched = NoSched
  /\ ctor = Constructed
  /\ \E config \in [Pairs -> TokenConfigs] :
       mgr = [phase |-> "init", k |-> 1, config |-> config,
              sync_pairs |-> <<>>, failed |-> {},
              observers |-> [p \in Pairs |-> "none"], inflight |-> {}]

NextManager ==
  \/ init_pair
  \/ start_tasks
  \/ \E p \in Pairs : sched_call(p)
  \/ \E p \in Pairs : sync_ends(p)
  \/ sched_resume
  \/ sched_wake
  \/ \E p \in Pairs : watcher_call(p)
  \/ shutdown
  \/ \E p \in Pairs : observer_stop(p)
  \/ \E p \in Pairs : observer_join(p)
  \/ shutdown_done

SpecManager == InitManager /\ [][NextManager]_vars

NextSched ==
  \/ \E p \in Pairs : sched_call(p)
  \/ \E p \in Pairs : sync_ends(p)
  \/ sched_resume
  \/ sched_wake
  \/ \E p \in Pairs : watcher_call(p)

SpecSched == Init /\ [][NextSched]_vars

\* --------------------------------------------------- SyncPair.__init__
\* What the local folder can hold when the pair is constructed: no
\* repository; a repository with a valid HEAD; one with no commit; one with
\* commits and a HEAD that does not resolve.
OnDisk ==
  {d \in [pc : {"start"}, fn : {"_initialize_git"}, git_folder : BOOLEAN,
          files : BOOLEAN, commits : BOOLEAN, head : {"valid", "invalid"},
          origin : {"absent", "old", "current"},
          branch : {"absent", "exists", "current"}, err : {"none"},
          disk : {"norepo", "valid", "nocommit", "nohead"},
          history : 0..MaxHistory, head_at : 0..MaxHistory,
          created : {0}, content : {"none"}, staged : {FALSE}] :
     /\ ~d.git_folder => /\ ~d.commits /\ d.head = "invalid"
                         /\ d.origin = "absent" /\ d.branch = "absent"
     /\ ~d.commits => d.branch # "exists"
     /\ d.head = "valid" => d.commits
     /\ d.commits => d.files
     /\ d.commits <=> d.history > 0
     /\ d.head_at = IF d.head = "valid" THEN d.history ELSE 0
     /\ d.disk = IF ~d.git_folder THEN "norepo"
                 ELSE IF d.head = "valid" THEN "valid"
                 ELSE IF d.commits THEN "nohead" ELSE "nocommit"}

everythingButCtor ==
  <<now, autocommit_time, sync_lock, last_sync_time, last_event_time,
    pc, call, chg, incoming, trk, ahead, hc, sched, mgr>>

\* (mutant) the remote is created when absent and left alone otherwise.
origin_created_if_absent(o) == IF o = "absent" THEN "current" ELSE o

\* if 'origin' not in self.repo.remotes: create_remote('origin', remote_url)
\* else: self.repo.remotes.origin.set_url(remote_url)
origin_set(o) == IF o = "absent" THEN "current" ELSE "current"

\* No .git: git.Repo.init(local_folder); create_remote('origin', remote_url)
ctor_init ==
  /\ ctor.pc = "start" /\ ~ctor.git_folder
  /\ \E o \in {"ok", "exc"} :
       ctor' = IF o = "ok"
                 THEN [ctor EXCEPT !.git_folder = TRUE, !.origin = "current",
                                   !.pc = IF ctor.files THEN "first_commit" ELSE "verify",
                                   !.fn = IF ctor.files THEN @ ELSE "_ensure_valid_repository"]
                 ELSE [ctor EXCEPT !.pc = "error", !.err = "Repo.init"]
  /\ UNCHANGED everythingButCtor

\* The folder is not empty: index.add('*'); if index.diff('HEAD'):
\* index.commit("Initial commit").  In a repository without commits
\* rev_parse('HEAD') of index.diff raises BadName, which nothing catches.
ctor_first_commit ==
  /\ ctor.pc = "first_commit"
  /\ \E o \in {"differs", "same", "badname", "exc"} :
       ctor' = IF o = "differs"
                 THEN [ctor EXCEPT !.commits = TRUE, !.head = "valid", !.pc = "verify",
                                   !.fn = "_ensure_valid_repository",
                                   !.history = @ + 1, !.head_at = ctor.history + 1,
                                   !.created = @ + 1, !.content = "files",
                                   !.staged = TRUE]
               ELSE IF o = "same"
                 THEN [ctor EXCEPT !.pc = "verify", !.fn = "_ensure_valid_repository"]
               ELSE [ctor EXCEPT !.pc = "error",
                                 !.err = IF o = "badname" THEN "index.diff" ELSE "index.add"]
  /\ UNCHANGED everythingButCtor

\* .git exists: git.Repo(local_folder), then the remote.
ctor_open ==
  /\ ctor.pc = "start" /\ ctor.git_folder
  /\ \E o \in {"ok", "exc"} :
       ctor' = IF o = "ok"
                 THEN [ctor EXCEPT !.origin = origin_set(@), !.pc = "verify"]
                 ELSE [ctor EXCEPT !.pc = "error", !.err = "Repo"]
  /\ UNCHANGED everythingButCtor

\* try: self.repo.head.commit (lines 392 and 314); at the end of
\* _initialize_git, __init__ calls _ensure_valid_repository.
ctor_verify ==
  /\ ctor.pc = "verify"
  /\ ctor' = IF ctor.head = "invalid" THEN [ctor EXCEPT !.pc = "iter"]
             ELSE IF ctor.fn = "_initialize_git"
               THEN [ctor EXCEPT !.fn = "_ensure_valid_repository"]
             ELSE [ctor EXCEPT !.pc = "ready"]
  /\ UNCHANGED everythingButCtor

\* except (ValueError, BadName): commits = list(self.repo.iter_commits()),
\* which may itself raise ValueError while HEAD does not resolve.
ctor_iter ==
  /\ ctor.pc = "iter"
  /\ \E o \in {"ok", "valueerror"} :
       ctor' = IF o = "ok"
                 THEN [ctor EXCEPT !.pc = IF ctor.commits THEN "reset" ELSE "commit"]
                 ELSE [ctor EXCEPT !.pc = "error", !.err = "iter_commits"]
  /\ UNCHANGED everythingButCtor

\* list(self.repo.iter_commits()) of a history of n commits: the order of
\* git rev-list, the most recent commit first.
iter_commits(n) == [i \in 1..n |-> n + 1 - i]

\* if commits: self.repo.head.reset(commits[0], working_tree=True)
ctor_reset ==
  /\ ctor.pc = "reset"
  /\ \E o \in {"ok", "exc"} :
       ctor' = IF o = "ok"
                 THEN [ctor EXCEPT !.head = "valid", !.pc = "checkout",
                                   !.head_at = iter_commits(ctor.history)[1]]
                 ELSE [ctor EXCEPT !.pc = "error", !.err = "head.reset"]
  /\ UNCHANGED everythingButCtor

\* (mutant) the initial commit of the repair is empty in both methods.
initial_commit_empty(fn, differs) == "empty"

\* What the initial commit of the repair holds.  _initialize_git:
\* index.add('*'); if index.diff('HEAD'): index.commit("Initial commit")
\* else: index.commit("Initial empty commit").  _ensure_valid_repository:
\* index.commit("Initial empty commit") with nothing staged by it.
initial_commit(fn, differs) ==
  IF fn = "_initialize_git" /\ differs THEN "files" ELSE "empty"

\* else: the initial commit.  _initialize_git stages the files of the
\* folder first, and index.diff('HEAD') finds them ("differs", of a folder
\* with files) or not ("same"), or raises BadName while there is no commit.
ctor_commit ==
  /\ ctor.pc = "commit"
  /\ \E o \in {"same", "exc"} \cup
               (IF ctor.fn = "_initialize_git" THEN {"badname"} ELSE {}) \cup
               (IF ctor.fn = "_initialize_git" /\ ctor.files
                  THEN {"differs"} ELSE {}) :
       ctor' = IF o \in {"differs", "same"}
                 THEN [ctor EXCEPT !.commits = TRUE, !.head = "valid",
                                   !.pc = "checkout",
                                   !.history = @ + 1, !.head_at = ctor.history + 1,
                                   !.created = @ + 1,
                                   !.staged = (o = "differs"),
                                   !.content = initial_commit(ctor.fn, o = "differs")]
                 ELSE [ctor EXCEPT !.pc = "error",
                                   !.err = IF o = "badname" THEN "index.diff"
                                           ELSE "index.commit"]
  /\ UNCHANGED everythingButCtor

\* After the branch is checked out: _initialize_git verifies HEAD again,
\* _ensure_valid_repository is over.
after_checkout == IF ctor.fn = "_initialize_git" THEN "reverify" ELSE "ready"

\* try: self.repo.git.checkout(self.branch): a branch that does not exist
\* cannot be checked out.
ctor_checkout ==
  /\ ctor.pc = "checkout"
  /\ \E o \in {"other"} \cup (IF ctor.branch # "absent" THEN {"ok"} ELSE {}) :
       ctor' = IF o = "ok"
                 THEN [ctor EXCEPT !.pc = after_checkout, !.branch = "current"]
                 ELSE [ctor EXCEPT !.pc = "checkout_b"]
  /\ UNCHANGED everythingButCtor

\* except GitCommandError: self.repo.git.checkout('-b', self.branch): a
\* branch that exists cannot be created.
ctor_checkout_b ==
  /\ ctor.pc = "checkout_b"
  /\ \E o \in {"other"} \cup (IF ctor.branch = "absent" THEN {"ok"} ELSE {}) :
       ctor' = IF o = "ok"
                 THEN [ctor EXCEPT !.pc = after_checkout, !.branch = "current"]
                 ELSE [ctor EXCEPT !.pc = "error", !.err = "checkout -b"]
  /\ UNCHANGED everythingButCtor

\* _initialize_git: self.repo.head.commit once more; its ValueError is
\* raised again.  Then __init__ calls _ensure_valid_repository.
ctor_reverify ==
  /\ ctor.pc = "reverify"
  /\ ctor' = IF ctor.head = "valid"
               THEN [ctor EXCEPT !.pc = "verify", !.fn = "_ensure_valid_repository"]
               ELSE [ctor EXCEPT !.pc = "error", !.err = "head.commit"]
  /\ UNCHANGED everythingButCtor

InitCtor ==
  /\ now = StartTime
  /\ autocommit_time \in AutocommitTimes
  /\ sync_lock = FALSE
  /\ last_sync_time = 0
  /\ last_event_time = 0
  /\ pc = [c \in Contexts |-> "idle"]
  /\ call = [c \in Contexts |-> NoCall]
  /\ chg = [x \in Changes |-> "none"]
  /\ incoming = "no"
  /\ trk = "none"
  /\ ahead = TRUE
  /\ hc = NoHas
  /\ sched = NoSched
  /\ ctor \in OnDisk
  /\ mgr = Started

NextCtor ==
  \/ ctor_init
  \/ ctor_first_commit
  \/ ctor_open
  \/ ctor_verify
  \/ ctor_iter
  \/ ctor_reset
  \/ ctor_commit
  \/ ctor_checkout
  \/ ctor_checkout_b
  \/ ctor_reverify

SpecCtor == InitCtor /\ [][NextCtor]_vars

\* The watcher over a longer time: a pair whose autocommit_time is larger
\* than the run lasts, so that every sync() call ends at the rate limit.
WatchAutocommit == StartTime + MaxWatchTicks + 1

InitWatch ==
  /\ now = StartTime
  /\ autocommit_time = WatchAutocommit
  /\ sync_lock = FALSE
  /\ last_sync_time = 0
  /\ last_event_time = 0
  /\ pc = [c \in Contexts |-> "idle"]
  /\ call = [c \in Contexts |-> NoCall]
  /\ chg = [x \in Changes |-> "none"]
  /\ incoming = "no"
  /\ trk = "r0"
  /\ ahead = FALSE
  /\ hc = NoHas
  /\ sched = NoSched
  /\ ctor = Constructed
  /\ mgr = Started

\* The clock advances.
TickWatch ==
  /\ now < StartTime + MaxWatchTicks
  /\ now' = now + 1
  /\ UNCHANGED <<autocommit_time, sync_lock, last_sync_time, last_event_time,
                 pc, call, chg, incoming, trk, ahead, hc, sched, ctor, mgr>>

NextWatch ==
  \/ TickWatch
  \/ UserEdit
  \/ on_event
  \/ sync_all
  \/ \E c \in Contexts : sync_check(c)
  \/ \E c \in Contexts : sync_release(c)
  \/ \E c \in Contexts : sync_return(c)

SpecWatch == InitWatch /\ [][NextWatch]_vars

\* ================================================================ claims
\* A sync() call of context c is past the guard: it holds the lock and has
\* not released it yet.
InFlight(c) == pc[c] \notin {"idle", "ret"}

\* A step of context c.
Moves(c) == pc'[c] # pc[c]

\* C1: at any instant at most one sync() execution of the pair is past the
\* guard acquisition, whatever the interleaving of the watcher's and the
\* scheduler's calls.
C1_OneSyncInFlight == Cardinality({c \in Contexts : InFlight(c)}) <= 1

\* A sync is inside its pull or its push while the other context's call
\* has found the guard held.
C1_Witness ==
  \E c \in Contexts, d \in Contexts :
    /\ c # d
    /\ pc[c] \in {"p_pull", "cp_push"}
    /\ pc[d] = "ret" /\ call[d].outcome = "busy"

\* C2: a sync() call that finds the guard held returns in that same step
\* (it does not wait), with no repository call made, last_sync_time, the
\* guard and the repository unchanged; and the call is over: from there the
\* context only goes back to its caller, the trigger is not run later.
C2_BusyCallDropped ==
  [][\A c \in Contexts :
       /\ (pc[c] = "idle" /\ sync_lock /\ Moves(c))
            => /\ pc'[c] = "ret"
               /\ call'[c].outcome = "busy"
               /\ ~call'[c].touched
               /\ UNCHANGED <<sync_lock, last_sync_time, chg, incoming, trk, ahead>>
       /\ (pc[c] = "ret" /\ call[c].outcome = "busy" /\ Moves(c))
            => /\ pc'[c] = "idle"
               /\ ~call[c].touched
               /\ UNCHANGED <<sync_lock, last_sync_time, chg, incoming, trk, ahead>>
    ]_vars

\* The watcher's call has been dropped while the scheduler's sync is about
\* to push.
C2_Witness ==
  /\ pc["watcher"] = "ret" /\ call["watcher"].outcome = "busy"
  /\ pc["scheduler"] = "cp_push"
  /\ sync_lock

\* C3: a sync() call that took the guard less than autocommit_time after
\* last_sync_time makes no repository call, leaves last_sync_time and the
\* repository unchanged and releases the guard, in the watcher's context as
\* in the scheduler's.
C3_RateLimitedSkip ==
  [][\A c \in Contexts :
       /\ (pc[c] = "check" /\ now - last_sync_time < autocommit_time /\ Moves(c))
            => /\ pc'[c] = "release"
               /\ call'[c].outcome = "ratelimited"
               /\ ~call'[c].touched
               /\ UNCHANGED <<last_sync_time, chg, incoming, trk, ahead>>
       /\ (pc[c] = "release" /\ call[c].outcome = "ratelimited" /\ Moves(c))
            => /\ pc'[c] = "ret"
               /\ ~sync_lock'
               /\ ~call'[c].touched
               /\ UNCHANGED <<last_sync_time, chg, incoming, trk, ahead>>
    ]_vars

\* Both contexts have had a call skipped by the rate limit.
C3_Witness ==
  \A c \in Contexts :
    pc[c] = "ret" /\ call[c].outcome = "ratelimited" /\ ~call[c].touched

\* C4 (as claimed): every sync() call that passed the guard and the rate
\* limit has set last_sync_time when it releases the guard, also when
\* _pull_changes or _commit_and_push raised.
C4_TimestampOnEveryAttempt ==
  \A c \in Contexts :
    (pc[c] = "release" /\ call[c].outcome \in {"done", "caught"})
      => last_sync_time = call[c].current_time

\* C5: the guard is never held while no sync() is past it: every exit path
\* of sync() has released it, so a later call can take it.
C5_GuardReleasedOnExit == sync_lock => \E c \in Contexts : InFlight(c)

\* A sync() whose except clause ran has returned and the guard is free.
C5_Witness ==
  \E c \in Contexts :
    pc[c] = "ret" /\ call[c].outcome = "caught" /\ ~sync_lock

\* C6: no sync() call ends by raising: an exception of _pull_changes or
\* _commit_and_push ends in the except clause.
C6_SyncNeverRaises == \A c \in Contexts : call[c].outcome # "raised"

\* An exception that is no GitCommandError was caught by sync().
C6_Witness ==
  \E c \in Contexts :
    pc[c] = "release" /\ call[c].outcome = "caught" /\ call[c].err = "exc"

\* C7 (as claimed): _pull_changes never raises to its caller.
C7_PullNeverRaises == \A c \in Contexts : call[c].pullRes # "raised"

\* C8 (as claimed): _commit_and_push never raises to its caller.
C8_CommitAndPushNeverRaises == \A c \in Contexts : call[c].cpRes # "raised"

\* C9 (as claimed): _has_changes never raises, and returns False whenever
\* one of its repository calls failed (other than HEAD not resolving, which
\* selects the fallback), in the try block and in the fallback.
C9_HasChangesFailSafe ==
  /\ hc.res # "raised"
  /\ hc.failed # <<>> => hc.res = "false"

\* The calls _pull_changes made when its first pull failed with a merge
\* conflict, as the handler makes them.
ConflictPath(c) ==
  /\ call[c].plog # <<>>
  /\ call[c].plog[1] = <<"pull", "conflict">>

\* C10: when the first pull fails with a merge conflict, _pull_changes
\* calls merge --abort, then reset --hard origin/<branch>, then (the reset
\* having succeeded) pull once more and never again; it returns True when
\* that pull succeeds, and False, raising nothing, when the reset or that
\* pull fails.
C10_ConflictRecovery ==
  \A c \in Contexts :
    (pc[c] = "p_return" /\ ConflictPath(c)) =>
      LET l == call[c].plog IN
      /\ Len(l) \in {3, 4}
      /\ l[2][1] = "merge_abort"
      /\ l[3][1] = "reset"
      /\ Len(l) = 4 <=> l[3][2] = "ok"
      /\ Len(l) = 4 => l[4][1] = "pull"
      /\ call[c].pullRes = IF Len(l) = 4 /\ l[4][2] = "ok" THEN "true" ELSE "false"

\* The conflict was resolved: abort, reset and the second pull succeeded.
C10_Witness ==
  \E c \in Contexts :
    /\ pc[c] = "p_return"
    /\ call[c].plog = << <<"pull", "conflict">>, <<"merge_abort", "ok">>,
                         <<"reset", "ok">>, <<"pull", "ok">> >>
    /\ call[c].pullRes = "true"

\* The first pull of _pull_changes failed with e.
FirstPullFailed(c, e) ==
  /\ call[c].plog # <<>>
  /\ call[c].plog[1] = <<"pull", e>>

\* The names of the calls in a log of _pull_changes.
Calls(l) == {l[i][1] : i \in 1..Len(l)}

\* C11 (as claimed): when the first pull fails on untracked files that the
\* incoming files would overwrite, _pull_changes stages everything, commits
\* it, pulls exactly once more, resets nothing and raises nothing: it
\* returns True when that pull succeeds and False when it fails.
C11_UntrackedRecovery ==
  \A c \in Contexts :
    (pc[c] = "p_return" /\ FirstPullFailed(c, "untracked")) =>
      LET l == call[c].plog IN
      /\ Len(l) = 4
      /\ l[2] = <<"index_add", "ok">>
      /\ l[3] = <<"index_commit", "ok">>
      /\ l[4][1] = "pull"
      /\ "reset" \notin Calls(l)
      /\ call[c].pullRes = IF l[4][2] = "ok" THEN "true" ELSE "false"

\* C12 (as claimed): when the first pull fails with an error that names
\* neither a merge conflict nor untracked files, _pull_changes resets once,
\* pulls no more and returns False, whether or not the reset succeeded.
C12_OtherFailureReturnsFalse ==
  \A c \in Contexts :
    (pc[c] = "p_return" /\ FirstPullFailed(c, "other")) =>
      /\ Len(call[c].plog) = 2
      /\ call[c].plog[2][1] = "reset"
      /\ call[c].pullRes = "false"

\* C13 (as claimed, in what it says least): _pull_changes never discards a
\* modification that was uncommitted when it started: when it returns, none
\* of them has been dropped by a reset to origin/<branch>, also when the
\* push or the pull failed.  (The claim says more: each is then in a commit
\* of the local branch or in the remote branch.)
C13_ModificationsKept ==
  \A c \in Contexts :
    (pc[c] = "p_return" /\ call[c].pullRes \in {"true", "false"}) =>
      \A x \in call[c].dirty : chg[x] # "lost"

\* The second of the two _commit_and_push calls of one sync() is over: the
\* one _pull_changes made for a dirty tree, then sync()'s own.
TwoCalls(c) ==
  /\ pc[c] = "cp_return"
  /\ call[c].frame = "sync"
  /\ call[c].cp1 # <<>>

\* The second call started with the changes the first one started with.
NoChangeBetween(c) == call[c].made = call[c].cp1[1].made

\* C14 (as claimed): every _commit_and_push call attempts the push, and of
\* two successive calls with no change of the files between them the
\* second creates no commit.
C14_PushOnEveryCall ==
  \A c \in Contexts :
    /\ pc[c] = "cp_return" => call[c].push_result # "none"
    /\ (TwoCalls(c) /\ NoChangeBetween(c)) =>
         /\ ~call[c].committed
         /\ call[c].cp1[1].push_result # "none"

\* C15: _commit_and_push returns True exactly when it created a commit or
\* origin/<branch> is not, after the push, what it was before it; with no
\* commit and the ref unmoved it returns False.
C15_TrueIffCommittedOrPushed ==
  \A c \in Contexts :
    (pc[c] = "cp_return" /\ call[c].cpRes \in {"true", "false"}) =>
      (call[c].cpRes = "true"
         <=> (call[c].committed \/ call[c].old_remote_head # trk))

\* A call that committed nothing returned True: its push moved the ref from
\* one commit to another.
C15_Witness ==
  \E c \in Contexts :
    /\ pc[c] = "cp_return" /\ call[c].cpRes = "true"
    /\ ~call[c].committed
    /\ call[c].old_remote_head # "none" /\ call[c].old_remote_head # trk

\* C16 (as claimed): with no origin/<branch> before the push, a call that
\* committed nothing returns False, also when the ref exists after it.
C16_UnknownTipNoEffect ==
  \A c \in Contexts :
    (/\ pc[c] = "cp_return" /\ call[c].cpRes \in {"true", "false"}
     /\ call[c].old_remote_head = "none" /\ ~call[c].committed)
      => call[c].cpRes = "false"

\* C16 (amended): with no origin/<branch> before the push, a call that
\* committed nothing returns True when the ref exists after the push (the
\* push created the remote branch) and False when it still does not.
C16_UnknownTipCountsAsPushed ==
  \A c \in Contexts :
    (/\ pc[c] = "cp_return" /\ call[c].cpRes \in {"true", "false"}
     /\ call[c].old_remote_head = "none" /\ ~call[c].committed)
      => (call[c].cpRes = "true" <=> trk # "none")

\* The first push of a new repository: no commit, the ref appears, True.
C16_Witness ==
  \E c \in Contexts :
    /\ pc[c] = "cp_return" /\ call[c].cpRes = "true"
    /\ call[c].old_remote_head = "none" /\ ~call[c].committed
    /\ trk # "none"

\* C17: an event of a file is accepted, and sync() called, exactly when
\* more than debounce_time seconds have passed since the last accepted
\* event; an event inside the window and an event of a directory change
\* nothing: sync() is not called and last_event_time stays.  So accepted
\* events, and the watcher's sync() calls, are more than debounce_time
\* apart: a burst triggers one sync(), on its first event.
C17_Debounce ==
  /\ [](pc["watcher"] = "idle" =>
          /\ ~ENABLED <<handle_event(TRUE)>>_vars
          /\ (ENABLED <<handle_event(FALSE)>>_vars)
               <=> now - last_event_time > debounce_time)
  /\ [][/\ (pc["watcher"] = "idle" /\ Moves("watcher"))
            => /\ now - last_event_time > debounce_time
               /\ last_event_time' = now
               /\ pc'["watcher"] \in {"check", "ret"}
        /\ last_event_time' # last_event_time
            => /\ pc["watcher"] = "idle" /\ Moves("watcher")
               /\ last_event_time' - last_event_time > debounce_time
       ]_vars

\* The second sync() of the watcher: triggered by the first event after
\* the window of the first accepted event.
C17_Witness ==
  /\ last_event_time > StartTime + debounce_time
  /\ pc["watcher"] = "check"
  /\ now = last_event_time

\* C18: the scheduled sync never ends because a pair's sync() raised: the
\* except clause logs the error and the for loop goes to the next pair, so
\* that when a round is over sync() has been called on every pair, and the
\* next round follows.
C18_EveryPairEveryRound ==
  /\ [](/\ sched.pos # "over"
        /\ sched.pos = "sleep" => sched.synced = Pairs)
  /\ [][(sched.pos = "await" /\ sched.res = "raised" /\ sched'.pos # "await")
          => /\ sched'.pos = IF sched.i = NumPairs THEN "sleep" ELSE "for"
             /\ sched'.errors = sched.errors \cup {sched.i}
             /\ sched'.synced = sched.synced
             /\ sched.i \in sched.synced
       ]_vars

\* Every pair's sync() has raised in some round, and a later round is over
\* with every pair synced.
C18_Witness ==
  /\ sched.pos = "sleep"
  /\ sched.tick >= 1
  /\ sched.errors = Pairs
  /\ sched.synced = Pairs

\* C19 (as claimed): while a pair's sync() called by the scheduled sync is
\* inside a slow repository or network call, the scheduled sync can call
\* sync() on the pairs it has not synced yet in this round.
C19_BlockedSyncDelaysNoOther ==
  \A p \in Pairs :
    (sched.running[p] = "worker" /\ sched.synced # Pairs)
      => ENABLED (\E q \in Pairs \ sched.synced : sched_call(q))

\* C20: whatever the local folder held (no repository, a repository with a
\* valid HEAD, with no commit, with commits and an unresolvable HEAD), when
\* the constructor ends without an error HEAD resolves to a commit and the
\* remote origin exists with the url of the current token.
C20_ConstructedRepository ==
  ctor.pc = "ready" =>
    /\ ctor.git_folder
    /\ ctor.head = "valid" /\ ctor.commits
    /\ ctor.origin = "current"

\* A folder that held no file and no commit, with or without a repository,
\* has been constructed: the repair created the initial empty commit.
C20_Witness ==
  /\ ctor.pc = "ready"
  /\ ctor.files = FALSE
  /\ ctor.commits
  /\ ctor.origin = "current"

C28_ResetToOldest ==
  (ctor.disk = "nohead" /\ ctor.pc \in {"checkout", "checkout_b", "reverify", "ready"})
    => ctor.head_at = 1 /\ ctor.created = 0

\* The pairs that initialize_sync_pairs has registered.
Registered == {mgr.sync_pairs[i] : i \in DOMAIN mgr.sync_pairs}

\* C22: a pair whose construction fails (its credential does not resolve, or
\* its repository cannot be repaired) is logged and not registered: it gets
\* no watcher and no sync() call; every other configured pair is
\* registered, gets its watcher, and is synced in every round of the
\* scheduled sync.
C22_FailedPairSkipped ==
  /\ [](mgr.phase # "init" =>
          /\ \A p \in Pairs :
               resolve_token(mgr.config[p]) = "ValueError" => p \in mgr.failed
          /\ Registered = Pairs \ mgr.failed
          /\ \A p \in mgr.failed :
               /\ mgr.observers[p] = "none"
               /\ sched.running[p] = "none"
               /\ p \notin sched.synced
          /\ mgr.phase = "run" =>
               \A p \in Registered : mgr.observers[p] = "started")
  /\ [](sched.pos = "sleep" => sched.synced = Pairs \ mgr.failed)

\* A pair whose token names an unset variable has failed, and a round of
\* the scheduled sync has synced every registered pair, of which there is
\* at least one.
C22_Witness ==
  /\ mgr.phase = "run"
  /\ \E p \in mgr.failed : mgr.config[p] = "${UNSET}"
  /\ Registered # {}
  /\ sched.pos = "sleep"
  /\ sched.synced = Registered

\* C29: when the shutdown is over every watcher of a registered pair is
\* stopped and joined and no sync() is running; from then on no watcher
\* event and no round of the scheduled sync calls sync(); and no step of
\* the shutdown ends a sync() that is running: it ends by itself, after
\* which the shutdown can complete.
C29_Shutdown ==
  /\ [](mgr.phase = "down" =>
          /\ \A p \in Registered : mgr.observers[p] = "joined"
          /\ \A p \in Pairs : sched.running[p] = "none")
  /\ [][mgr.phase = "down" =>
          /\ sched'.running = sched.running
          /\ sched'.synced = sched.synced]_vars
  /\ [][mgr' # mgr => sched'.running = sched.running]_vars

\* The shutdown is over, and it began while a worker thread and an observer
\* thread were inside sync().
C29_Witness ==
  /\ mgr.phase = "down"
  /\ Cardinality(mgr.inflight) >= 2

\* The number a sequence of digit characters denotes.
RECURSIVE Number(_)
Number(ds) ==
  IF ds = <<>> THEN 0
  ELSE 10 * Number(SubSeq(ds, 1, Len(ds) - 1))
         + (CHOOSE d \in 0..9 : Digit(d) = ds[Len(ds)])

\* ts reads YYYY-MM-DD HH:MM:SS and denotes the date and time dt.
IsTimestamp(ts, dt) ==
  /\ Len(ts) = 19
  /\ \A i \in 1..19 :
       IF i \in {5, 8} THEN ts[i] = "-"
       ELSE IF i = 11 THEN ts[i] = " "
       ELSE IF i \in {14, 17} THEN ts[i] = ":"
       ELSE \E d \in 0..9 : ts[i] = Digit(d)
  /\ Number(SubSeq(ts, 1, 4)) = dt.year
  /\ Number(SubSeq(ts, 6, 7)) = dt.month
  /\ Number(SubSeq(ts, 9, 10)) = dt.day
  /\ Number(SubSeq(ts, 12, 13)) = dt.hour
  /\ Number(SubSeq(ts, 15, 16)) = dt.minute
  /\ Number(SubSeq(ts, 18, 19)) = dt.second

\* msg is the configured template with its field {timestamp}, the last
\* item of the template, replaced by the timestamp of dt.
TemplateMessage(msg, dt) ==
  LET n == Len(commit_message_template) - 1 IN
  /\ Len(msg) = n + 19
  /\ SubSeq(msg, 1, n) = SubSeq(commit_message_template, 1, n)
  /\ IsTimestamp(SubSeq(msg, n + 1, n + 19), dt)

\* C23: when the _commit_and_push call of a sync() returns without an
\* exception and no file has changed since it staged, _has_changes() of a
\* sound repository returns false; a change leaves the index for a commit
\* only in _commit_and_push, or in the recovery of _pull_changes after a
\* repository call failed on untracked files; and the commit of _commit_and_push has the message of
\* the template with {timestamp} replaced by the time of the commit written
\* as YYYY-MM-DD HH:MM:SS.
C23_SyncCommitsLocalChanges ==
  /\ [](\A c \in Contexts :
          (/\ pc[c] = "cp_return" /\ call[c].frame = "sync"
           /\ call[c].cpRes \in {"true", "false"}
           /\ call[c].made = files_changed)
            => has_changes("ok", "ok", "ok", "ok", "ok").res = "false")
  /\ [][\A x \in Changes :
          (chg[x] = "index" /\ chg'[x] = "local") =>
            \E c \in Contexts :
              \/ pc[c] = "cp_commit" /\ pc'[c] = "cp_ref"
              \/ pc[c] = "p_ucommit" /\ call[c].err = "untracked"]_vars
  /\ [][\A c \in Contexts :
          (pc[c] = "cp_commit" /\ pc'[c] = "cp_ref") =>
            TemplateMessage(call'[c].commit_message, datetime_now(now))]_vars

\* A sync() whose _commit_and_push committed every change there was, with
\* its message, and returned True; nothing has changed since.
C23_Witness ==
  \E c \in Contexts :
    /\ pc[c] = "cp_return" /\ call[c].frame = "sync"
    /\ call[c].cpRes = "true" /\ call[c].committed
    /\ call[c].commit_message # <<>>
    /\ call[c].made = files_changed /\ call[c].made # {}
    /\ \A x \in call[c].made : chg[x] \in {"local", "remote"}
    /\ has_changes("ok", "ok", "ok", "ok", "ok").res = "false"

\* Context c is inside _pull_changes, or inside the _commit_and_push that
\* _pull_changes called.
InPull(c) ==
  \/ pc[c] \in {"p_dirty", "p_branch", "p_checkout", "p_pull", "p_abort",
                "p_creset", "p_cpull", "p_uadd", "p_ucommit", "p_upull",
                "p_reset", "p_return"}
  \/ call[c].frame = "pull"

\* Context c is inside the _commit_and_push that sync() called.
InCommitAndPush(c) ==
  /\ pc[c] \in {"cp_add", "cp_diff", "cp_commit", "cp_ref", "cp_push",
                "cp_ref2", "cp_return"}
  /\ call[c].frame = "sync"

\* C24: a sync() that is past the rate limit calls _pull_changes first;
\* sync() calls _commit_and_push only in the step in which _pull_changes
\* returns, and it does so whether _pull_changes returned True or False.
C24_PullThenCommitAndPush ==
  /\ [][\A c \in Contexts :
          (pc[c] = "check" /\ pc'[c] \notin {"check", "release"}) => InPull(c)']_vars
  /\ [][\A c \in Contexts :
          (~InCommitAndPush(c) /\ InCommitAndPush(c)') =>
            (pc[c] = "p_return" /\ call[c].pullRes \in {"true", "false"})]_vars
  /\ [][\A c \in Contexts :
          (pc[c] = "p_return" /\ call[c].pullRes \in {"true", "false"} /\ Moves(c))
            => (pc'[c] = "cp_add" /\ InCommitAndPush(c)')]_vars

\* _pull_changes has returned False to a sync() and no local of the call
\* holds an exception: the next step of the call is _commit_and_push.
C24_Witness ==
  \E c \in Contexts :
    /\ pc[c] = "p_return" /\ call[c].pullRes = "false"
    /\ ENABLED pull_return(c)

\* C25: last_sync_time never decreases, whatever the interleaving of the
\* sync() calls of the two contexts; it changes only in the step in which
\* a sync() that ran both _pull_changes and _commit_and_push stores it,
\* and a call that was skipped, by the guard or by the rate limit, leaves
\* it as it was.
C25_TimestampNeverDecreases ==
  /\ [][last_sync_time' >= last_sync_time]_vars
  /\ [][last_sync_time' # last_sync_time =>
          \E c \in Contexts :
            pc[c] = "s_done" /\ pc'[c] = "release" /\ call'[c].outcome = "done"]_vars
  /\ [][\A c \in Contexts :
          (Moves(c) /\ call'[c].outcome \in {"busy", "ratelimited"})
            => last_sync_time' = last_sync_time]_vars

\* A sync() is about to store a time later than the one an earlier sync()
\* stored, while the other context's call has been skipped by the guard.
C25_Witness ==
  \E c, d \in Contexts :
    /\ pc[c] = "s_done"
    /\ last_sync_time >= StartTime
    /\ call[c].current_time > last_sync_time
    /\ pc[d] = "ret" /\ call[d].outcome = "busy"

\* C26 (as claimed): the time a sync() stores in last_sync_time is the time
\* at which it stores it, the end of the attempt.
C26_StoresCompletionTime ==
  [][\A c \in Contexts :
       (pc[c] = "s_done" /\ pc'[c] = "release") => last_sync_time' = now]_vars

\* The sync() call of d has been dropped by the guard, and the
\* _commit_and_push of the sync() of c has returned without an exception.
DroppedDuring(c, d) ==
  /\ pc[d] = "ret" /\ call[d].outcome = "busy"
  /\ pc[c] = "cp_return" /\ call[c].frame = "sync"
  /\ call[c].cpRes \in {"true", "false"}

C30_EveryChangeIsPushed ==
  \A x \in Changes : (chg[x] \in {"wt", "untracked"}) ~> (chg[x] = "remote")

\* The watcher's sync() call was dropped by the guard while the change was
\* uncommitted, and the change has been pushed.
C30_Witness ==
  \E x \in Changes :
    /\ chg[x] = "remote"
    /\ pc["watcher"] = "ret" /\ call["watcher"].outcome = "busy"
    /\ x \in call["watcher"].pending

\* The watcher's sync() call was skipped: by the busy guard, or by the rate
\* limit.
WatcherSkipped == call["watcher"].outcome \in {"busy", "ratelimited"}

\* C31: the handler records an event as accepted (last_event_time = now) in
\* the step that calls sync(), also when that call finds the guard held; no
\* step of the sync() call, skipped by the busy guard or by the rate limit,
\* changes last_event_time; a skipped call only goes back to the handler,
\* which does not call sync() again; and while the window of the accepted
\* event lasts no event is accepted, after a skipped sync() as after any.
C31_AcceptedBeforeSync ==
  /\ []((pc["watcher"] = "idle" /\ now - last_event_time <= debounce_time)
          => /\ ~ENABLED <<handle_event(FALSE)>>_vars
             /\ ~ENABLED <<handle_event(TRUE)>>_vars)
  /\ [](WatcherSkipped
          => /\ last_event_time > 0
             /\ now - last_event_time >= 0
             /\ ~call["watcher"].touched)
  /\ [][/\ (pc["watcher"] = "idle" /\ Moves("watcher"))
            => /\ last_event_time' = now
               /\ sync_lock => /\ pc'["watcher"] = "ret"
                               /\ call'["watcher"].outcome = "busy"
        /\ pc["watcher"] # "idle" => last_event_time' = last_event_time
        /\ (WatcherSkipped /\ pc["watcher"] = "ret" /\ Moves("watcher"))
            => pc'["watcher"] = "idle"
       ]_vars

\* The watcher's second accepted event found the guard held by the
\* scheduler's call: its sync() was dropped, the clock has moved on, and
\* the time of the event is still the last accepted time.
C31_Witness ==
  /\ pc["watcher"] = "ret" /\ call["watcher"].outcome = "busy"
  /\ pc["scheduler"] = "check"
  /\ last_event_time > StartTime + debounce_time
  /\ now > last_event_time

\* C32: a constructed pair has last_sync_time = 0, and while no sync() has
\* stored a time no call is rate limited: with autocommit_time smaller
\* than the clock, a call that took the guard goes from the rate limit
\* into _pull_changes, the first call of the pair among them, and a call
\* that was skipped by the rate limit comes after a stored time.
C32_FirstSyncNotRateLimited ==
  /\ last_sync_time = 0
  /\ [](\A c \in Contexts :
          call[c].outcome = "ratelimited" => last_sync_time > 0)
  /\ [][\A c \in Contexts :
          (/\ pc[c] = "check" /\ Moves(c)
           /\ last_sync_time = 0 /\ autocommit_time < now)
            => /\ pc'[c] = "p_dirty" /\ InPull(c)'
               /\ call'[c].outcome = "none"
               /\ call'[c].current_time = now]_vars

\* The watcher's call, made at the time of the construction while no
\* sync() had stored a time, is inside the _commit_and_push sync() called.
C32_Witness ==
  /\ InCommitAndPush("watcher")
  /\ last_sync_time = 0
  /\ call["watcher"].current_time = StartTime
  /\ autocommit_time < StartTime

\* The positions of a sync() call whose next step is a call into the
\* repository: is_dirty, active_branch, checkout, pull, merge --abort,
\* reset --hard, index.add, index.diff, index.commit, the remote refs, push.
RepositoryCalls ==
  {"p_dirty", "p_branch", "p_checkout", "p_pull", "p_abort", "p_creset",
   "p_cpull", "p_uadd", "p_ucommit", "p_upull", "p_reset",
   "cp_add", "cp_diff", "cp_commit", "cp_ref", "cp_push", "cp_ref2"}

\* The step changes what only the program changes in the repository: the
\* remote-tracking ref (renaming its tip is no change), the local commits,
\* or a change that already exists (the user's edit makes a new one).
ProgramWrites ==
  \/ trk' # trk /\ trk' # renamed_trk
  \/ ahead' # ahead
  \/ \E x \in Changes : chg[x] # "none" /\ chg'[x] # chg[x]

\* C33: a context that is about to call into the repository is inside a
\* sync() that holds the guard, alone, and that has not been skipped; every
\* step that writes to the repository, and the first repository call of a
\* sync(), is such a step and leaves the guard held; a sync() that was
\* skipped, by the busy guard or by the rate limit, has made no repository
\* call, and a call that has released the guard makes none.
C33_RepositoryCallsUnderGuard ==
  /\ [](\A c \in Contexts :
          pc[c] \in RepositoryCalls
            => /\ sync_lock
               /\ call[c].outcome = "none"
               /\ \A d \in Contexts \ {c} : ~InFlight(d))
  /\ [](\A c \in Contexts :
          call[c].outcome \in {"busy", "ratelimited"} => ~call[c].touched)
  /\ [](\A c \in Contexts :
          (pc[c] \in {"ret", "idle"} /\ ~sync_lock)
            => \A d \in Contexts : pc[d] \notin RepositoryCalls)
  /\ [][ProgramWrites
          => \E c \in Contexts :
               /\ pc[c] \in RepositoryCalls /\ Moves(c)
               /\ sync_lock /\ sync_lock']_vars
  /\ [][\A c \in Contexts :
          (call'[c].touched /\ ~call[c].touched)
            => (pc[c] \in RepositoryCalls /\ sync_lock /\ sync_lock')]_vars

\* The scheduler's sync() holds the guard and is about to reset the branch
\* to origin's, after the watcher's call was skipped by the rate limit
\* without a repository call.
C33_Witness ==
  /\ pc["scheduler"] = "p_creset" /\ sync_lock
  /\ pc["watcher"] = "ret" /\ call["watcher"].outcome = "ratelimited"
  /\ ~call["watcher"].touched

====
